---- MODULE Spec2Model ----
(***************************************************************************)
(* A model of anyhow-std's PathAnyhow (src/src/path.rs): the wrappers that  *)
(* call a std::path / std::fs primitive and attach error context.          *)
(*                                                                         *)
(* Text is modelled as a sequence of tokens: a path is a sequence of its   *)
(* characters, a message is a sequence of literal phrases and characters.  *)
(* An anyhow::Error is its chain of messages, outermost context first, the *)
(* root cause last.                                                        *)
(***************************************************************************)
EXTENDS Integers, Sequences, FiniteSets, TLC

VARIABLES fs, inodes, last

vars == <<fs, inodes, last>>

(***************************************************************************)
(* Bounds                                                                  *)
(***************************************************************************)
\* longest path handed to the pure path queries
MaxLen == 3
\* longest prefix handed to strip_prefix_anyhow
MaxBaseLen == 2
\* longest byte buffer handed to write_anyhow
MaxBytes == 1

(***************************************************************************)
(* Characters and paths                                                    *)
(***************************************************************************)
Sep == "/"
Dot == "."
\* a byte that is not valid UTF-8 on its own (tests.rs: b"\x81\xff")
Bad81 == "<81>"

PathChars == {Sep, Dot, "a", Bad81}

SeqsUpTo(S, n) == UNION {[1..k -> S] : k \in 0..n}

Paths == SeqsUpTo(PathChars, MaxLen)
Bases == SeqsUpTo(PathChars, MaxBaseLen)

(***************************************************************************)
(* std::path::Path, as the wrappers use it                                 *)
(***************************************************************************)
\* the pieces of s between separators, empty pieces included
RECURSIVE SplitSep(_)
SplitSep(s) ==
    IF \A i \in 1..Len(s) : s[i] # Sep THEN <<s>>
    ELSE LET i == CHOOSE j \in 1..Len(s) :
                      s[j] = Sep /\ \A k \in 1..(j-1) : s[k] # Sep
         IN <<SubSeq(s, 1, i-1)>> \o SplitSep(SubSeq(s, i+1, Len(s)))

HasRoot(p) == Len(p) > 0 /\ p[1] = Sep

\* Components::include_cur_dir: a relative path that starts with "." or "./"
IncludeCurDir(p) ==
    /\ ~HasRoot(p)
    /\ Len(p) > 0 /\ p[1] = Dot
    /\ (Len(p) = 1 \/ p[2] = Sep)

\* Components::parse_single_component over the body pieces
RECURSIVE BodyComponents(_)
BodyComponents(pieces) ==
    IF pieces = <<>> THEN <<>>
    ELSE LET c == Head(pieces)
             rest == BodyComponents(Tail(pieces))
         IN IF c = <<>> \/ c = <<Dot>> THEN rest
            ELSE IF c = <<Dot, Dot>> THEN <<[kind |-> "ParentDir", name |-> c]>> \o rest
            ELSE <<[kind |-> "Normal", name |-> c]>> \o rest

\* Path::components
Components(p) ==
    IF HasRoot(p)
      THEN <<[kind |-> "RootDir", name |-> <<Sep>>]>>
           \o BodyComponents(SplitSep(Tail(p)))
    ELSE IF IncludeCurDir(p)
      THEN <<[kind |-> "CurDir", name |-> <<Dot>>]>>
           \o BodyComponents(SplitSep(Tail(p)))
    ELSE BodyComponents(SplitSep(p))

None == [some |-> FALSE]
Some(v) == [some |-> TRUE, val |-> v]

\* Path::to_str: the text of the path when it is valid UTF-8
to_str(p) ==
    IF \E i \in 1..Len(p) : p[i] = Bad81 THEN None ELSE Some(p)

\* Path::parent: the path without its last component (a Path value is
\* compared by components, so the value is the component sequence)
parent(p) ==
    LET cs == Components(p)
    IN IF cs = <<>> THEN None
       ELSE IF cs[Len(cs)].kind = "RootDir" THEN None
       ELSE Some(SubSeq(cs, 1, Len(cs) - 1))

\* Path::file_name: the last component when it is a normal name
file_name(p) ==
    LET cs == Components(p)
    IN IF cs = <<>> THEN None
       ELSE IF cs[Len(cs)].kind = "Normal" THEN Some(cs[Len(cs)].name)
       ELSE None

\* rsplit_file_at_dot: (before, after) around the last dot
rsplit_file_at_dot(file) ==
    IF file = <<Dot, Dot>> THEN <<Some(file), None>>
    ELSE IF \A i \in 1..Len(file) : file[i] # Dot THEN <<None, Some(file)>>
    ELSE LET i == CHOOSE j \in 1..Len(file) :
                      file[j] = Dot /\ \A k \in (j+1)..Len(file) : file[k] # Dot
             before == SubSeq(file, 1, i-1)
             after == SubSeq(file, i+1, Len(file))
         IN IF before = <<>> THEN <<Some(file), None>>
            ELSE <<Some(before), Some(after)>>

\* Path::file_stem: before.or(after)
file_stem(p) ==
    LET f == file_name(p)
    IN IF ~f.some THEN None
       ELSE LET ba == rsplit_file_at_dot(f.val)
            IN IF ba[1].some THEN ba[1] ELSE ba[2]

\* a variant of extension that splits a dotfile at its leading dot
extension_OfDotfile(p) ==
    LET f == file_name(p)
    IN IF ~f.some THEN None
       ELSE IF \A i \in 1..Len(f.val) : f.val[i] # Dot THEN None
       ELSE LET i == CHOOSE j \in 1..Len(f.val) :
                         f.val[j] = Dot /\ \A k \in (j+1)..Len(f.val) : f.val[k] # Dot
            IN Some(SubSeq(f.val, i + 1, Len(f.val)))

\* Path::extension: before.and(after)
extension(p) ==
    LET f == file_name(p)
    IN IF ~f.some THEN None
       ELSE LET ba == rsplit_file_at_dot(f.val)
            IN IF ba[1].some THEN ba[2] ELSE None

(***************************************************************************)
(* Text, results and anyhow errors                                         *)
(***************************************************************************)
\* OsStr's Debug escapes what is not printable text
Esc(c) ==
    IF c = Bad81 THEN "\\x81"
    ELSE IF c = "\"" THEN "\\\""
    ELSE IF c = "\\" THEN "\\\\"
    ELSE c

\* format!("{:?}", p.display()): the path escaped, in double quotes
Quote(p) == <<"\"">> \o [i \in 1..Len(p) |-> Esc(p[i])] \o <<"\"">>

\* format!("{:?}", b) of a bool
DebugBool(b) == IF b THEN <<"true">> ELSE <<"false">>

Ok(v) == [ok |-> TRUE, val |-> v]
\* an error is its chain of messages, outermost first
Err(chain) == [ok |-> FALSE, chain |-> chain]
\* a native error (std::io::Error, StripPrefixError): one message, no context
Native(msg) == Err(<<msg>>)
Unit == "()"

\* anyhow::Context::with_context on a Result
with_context(res, ctx) ==
    IF res.ok THEN res ELSE Err(<<ctx>> \o res.chain)

\* Option::ok_or_else(|| anyhow::Error::msg(desc))
ok_or_else(opt, desc) ==
    IF opt.some THEN Ok(opt.val) ELSE Err(<<desc>>)

\* format!("{:#}", error): the chain joined by ": " (tests.rs assert_error_desc_eq)
RECURSIVE Render(_)
Render(chain) ==
    IF Len(chain) = 0 THEN <<>>
    ELSE IF Len(chain) = 1 THEN chain[1]
    ELSE chain[1] \o <<": ">> \o Render(Tail(chain))

\* t occurs in s as a contiguous piece
Contains(s, t) ==
    \E i \in 0..(Len(s) - Len(t)) : SubSeq(s, i + 1, i + Len(t)) = t

ProcessingCtx(p) == <<"while processing path ">> \o Quote(p)

\* Path::strip_prefix: iter_after over the two component sequences, the
\* rest of the path or StripPrefixError
strip_prefix(p, base) ==
    LET cs == Components(p)
        bs == Components(base)
    IN IF Len(bs) <= Len(cs) /\ SubSeq(cs, 1, Len(bs)) = bs
         THEN Ok(SubSeq(cs, Len(bs) + 1, Len(cs)))
       ELSE Native(<<"prefix not found">>)

(***************************************************************************)
(* The filesystem the std::fs primitives act on: a caller without          *)
(* privileges, "/" owned by someone else, a temporary directory "/t" owned *)
(* by the caller (tests.rs: tempfile::TempDir), no symbolic links.         *)
(***************************************************************************)
Root == <<"/">>
Tmp == <<"/", "t">>
TmpA == <<"/", "t", "/", "a">>
TmpB == <<"/", "t", "/", "b">>
TmpAB == <<"/", "t", "/", "a", "/", "b">>
\* tests.rs "/this/path/should/not/exist": nothing is ever at these two
Gone == <<"/", "n">>
GoneA == <<"/", "n", "/", "a">>

FsNodes == {Root, Tmp, TmpA, TmpB, TmpAB, Gone, GoneA}
NodeList == <<Root, Tmp, TmpA, TmpB, TmpAB, Gone, GoneA>>

\* bytes a file may hold: 'h' (tests.rs:298), and 0xF3 which is not UTF-8
\* (tests.rs:340)
ByteH == 104
ByteF3 == 243
Bytes == {ByteH, ByteF3}
Contents == SeqsUpTo(Bytes, MaxBytes)

Inos == 1..Len(NodeList)

NoEntry == [kind |-> "none", ro |-> FALSE, rest |-> "-", own |-> FALSE, ino |-> 0]
DirEntry(ro, rest, own) ==
    [kind |-> "dir", ro |-> ro, rest |-> rest, own |-> own, ino |-> 0]
FileEntry(i) == [kind |-> "file", ro |-> FALSE, rest |-> "-", own |-> TRUE, ino |-> i]
FreeInode == [content |-> <<>>, ro |-> FALSE, rest |-> "-"]

\* Path::join of a directory and a name
Join(d, name) == IF d = Root THEN d \o <<name>> ELSE d \o <<Sep, name>>

Names == {"t", "n", "a", "b"}

IsChild(c, d) == \E name \in Names : c = Join(d, name)

\* the directory a node is an entry of
ParentTab == [n \in FsNodes \ {Root} |-> CHOOSE m \in FsNodes : IsChild(n, m)]

\* a is a proper ancestor of n
RECURSIVE IsAncestor(_, _)
IsAncestor(a, n) ==
    IF n = Root THEN FALSE ELSE ParentTab[n] = a \/ IsAncestor(a, ParentTab[n])

Min(S) == CHOOSE x \in S : \A y \in S : x <= y

ENOENT == <<"No such file or directory (os error 2)">>
EACCES == <<"Permission denied (os error 13)">>
EPERM == <<"Operation not permitted (os error 1)">>
EEXIST == <<"File exists (os error 17)">>
ENOTDIR == <<"Not a directory (os error 20)">>
EISDIR == <<"Is a directory (os error 21)">>
EINVAL == <<"Invalid argument (os error 22)">>
EBUSY == <<"Device or resource busy (os error 16)">>
ENOTEMPTY == <<"Directory not empty (os error 39)">>
NotUtf8 == <<"stream did not contain valid UTF-8">>
NotRegular ==
    <<"the source path is neither a regular file nor a symlink to a regular file">>

Kind(w, n) == w.fs[n].kind
Exists(w, n) == Kind(w, n) # "none"

\* the permission bits of the entry at n: readonly, and all the others
Perms(w, n) ==
    IF Kind(w, n) = "file"
      THEN [ro |-> w.inodes[w.fs[n].ino].ro, rest |-> w.inodes[w.fs[n].ino].rest]
    ELSE [ro |-> w.fs[n].ro, rest |-> w.fs[n].rest]

\* the bytes of the file at n
Content(w, n) == w.inodes[w.fs[n].ino].content

\* the caller may add and remove entries of directory d
DirWritable(w, d) == w.fs[d].own /\ ~w.fs[d].ro

HasChildren(w, d) == \E c \in FsNodes : IsChild(c, d) /\ Exists(w, c)

Out(res, w) == [res |-> res, w |-> w]

\* a later step of a primitive runs when the earlier one succeeded
Guard(first, then) == IF first.res.ok THEN then ELSE first

\* walking to n's directory: every ancestor, from "/" down, must be a
\* directory
RECURSIVE Resolve(_, _)
ResolveIn(w, d, up) ==
    IF ~up.ok THEN up
    ELSE IF Kind(w, d) = "none" THEN Native(ENOENT)
    ELSE IF Kind(w, d) # "dir" THEN Native(ENOTDIR)
    ELSE Ok(Unit)

Resolve(w, n) ==
    IF n = Root THEN Ok(Unit) ELSE ResolveIn(w, ParentTab[n], Resolve(w, ParentTab[n]))

\* the lowest inode number no entry refers to
FreeIno(w) ==
    Min({i \in Inos : \A n \in FsNodes : ~(w.fs[n].kind = "file" /\ w.fs[n].ino = i)})

\* stat: Path::metadata, Path::symlink_metadata
fs_metadata(w, n) ==
    Guard(Out(Resolve(w, n), w),
          IF ~Exists(w, n) THEN Out(Native(ENOENT), w)
          ELSE Out(Ok([kind |-> Kind(w, n), perms |-> Perms(w, n),
                       len |-> IF Kind(w, n) = "file" THEN Len(Content(w, n)) ELSE 0]),
                   w))

\* Path::canonicalize: the nodes are absolute and free of links and dots
fs_canonicalize(w, n) == Guard(fs_metadata(w, n), Out(Ok(n), w))

\* Path::read_link: nothing here is a symbolic link
fs_read_link(w, n) == Guard(fs_metadata(w, n), Out(Native(EINVAL), w))

\* Path::read_dir: the entries of a directory
fs_read_dir(w, n) ==
    Guard(fs_metadata(w, n),
          IF Kind(w, n) # "dir" THEN Out(Native(ENOTDIR), w)
          ELSE Out(Ok({c \in FsNodes : IsChild(c, n) /\ Exists(w, c)}), w))

\* mkdir
fs_create_dir(w, n) ==
    Guard(Out(Resolve(w, n), w),
          IF Exists(w, n) THEN Out(Native(EEXIST), w)
          ELSE IF ~DirWritable(w, ParentTab[n]) THEN Out(Native(EACCES), w)
          ELSE Out(Ok(Unit), [w EXCEPT !.fs[n] = DirEntry(FALSE, "x", TRUE)]))

\* DirBuilder::create_dir_all: mkdir; on NotFound the parent first, then
\* mkdir again; a failed mkdir of what is a directory counts as done
RECURSIVE fs_create_dir_all(_, _)
MkdirOrThere(w, n, made) ==
    IF made.res.ok THEN made
    ELSE IF Kind(w, n) = "dir" THEN Out(Ok(Unit), w)
    ELSE made

MkdirAfterParent(n, up) ==
    IF ~up.res.ok THEN up ELSE MkdirOrThere(up.w, n, fs_create_dir(up.w, n))

MkdirAll(w, n, first) ==
    IF first.res.ok THEN first
    ELSE IF first.res.chain # <<ENOENT>> THEN MkdirOrThere(w, n, first)
    ELSE IF n = Root THEN Out(Native(<<"failed to create whole tree">>), w)
    ELSE MkdirAfterParent(n, fs_create_dir_all(w, ParentTab[n]))

fs_create_dir_all(w, n) == MkdirAll(w, n, fs_create_dir(w, n))

\* std::fs::read: open and read to the end
fs_read(w, n) ==
    Guard(fs_metadata(w, n),
          IF Kind(w, n) = "dir" THEN Out(Native(EISDIR), w)
          ELSE Out(Ok(Content(w, n)), w))

\* the text a byte decodes to
Decode(b) == IF b = ByteH THEN "h" ELSE "?"

\* String::from_utf8 of what was read
DecodeAll(r) ==
    IF ~r.res.ok THEN r
    ELSE IF \E i \in 1..Len(r.res.val) : r.res.val[i] = ByteF3
      THEN Out(Native(NotUtf8), r.w)
    ELSE Out(Ok([i \in 1..Len(r.res.val) |-> Decode(r.res.val[i])]), r.w)

\* std::fs::read_to_string: the bytes decoded, when they are UTF-8
fs_read_to_string(w, n) == DecodeAll(fs_read(w, n))

\* a new file at n with the permissions perms, numbered i
Created(w, n, perms, i) ==
    [w EXCEPT !.fs[n] = FileEntry(i),
              !.inodes[i] = [content |-> <<>>, ro |-> perms.ro, rest |-> perms.rest]]

\* open(O_WRONLY | O_CREAT | O_TRUNC, mode): the world with n an empty
\* file open for writing, or the error
OpenTrunc(w, n, perms) ==
    Guard(Out(Resolve(w, n), w),
          IF Kind(w, n) = "dir" THEN Out(Native(EISDIR), w)
          ELSE IF Kind(w, n) = "file"
            THEN IF Perms(w, n).ro THEN Out(Native(EACCES), w)
                 ELSE Out(Ok(Unit), [w EXCEPT !.inodes[w.fs[n].ino].content = <<>>])
          ELSE IF ~DirWritable(w, ParentTab[n]) THEN Out(Native(EACCES), w)
          ELSE Out(Ok(Unit), Created(w, n, perms, FreeIno(w))))

NewFilePerms == [ro |-> FALSE, rest |-> "-"]

\* write_all(bytes) through the open file
WriteAll(o, n, bytes) ==
    IF ~o.res.ok THEN o
    ELSE Out(Ok(Unit), [o.w EXCEPT !.inodes[o.w.fs[n].ino].content = bytes])

\* a variant of fs_write that appends to what the file holds
fs_write_Append(w, n, bytes) ==
    WriteAll(OpenTrunc(w, n, NewFilePerms), n,
             (IF Kind(w, n) = "file" THEN Content(w, n) ELSE <<>>) \o bytes)

\* std::fs::write: File::create, then write_all
fs_write(w, n, bytes) == WriteAll(OpenTrunc(w, n, NewFilePerms), n, bytes)

\* the source's permissions set on the open target, then the source's bytes,
\* as they are now, copied into it; the count is returned
CopyAll(o, from, to, perms) ==
    IF ~o.res.ok THEN o
    ELSE Out(Ok(Len(Content(o.w, from))),
             [o.w EXCEPT !.inodes[o.w.fs[to].ino] =
                 [content |-> Content(o.w, from), ro |-> perms.ro, rest |-> perms.rest]])

\* std::fs::copy: open the source, create or truncate the target with the
\* source's permissions, set them, copy the bytes
fs_copy(w, from, to) ==
    Guard(fs_metadata(w, from),
          IF Kind(w, from) # "file" THEN Out(Native(NotRegular), w)
          ELSE CopyAll(OpenTrunc(w, to, Perms(w, from)), from, to, Perms(w, from)))

\* link(2)
fs_hard_link(w, src, link) ==
    Guard(fs_metadata(w, src),
      Guard(Out(Resolve(w, link), w),
          IF Exists(w, link) THEN Out(Native(EEXIST), w)
          ELSE IF ~DirWritable(w, ParentTab[link]) THEN Out(Native(EACCES), w)
          ELSE IF Kind(w, src) = "dir" THEN Out(Native(EPERM), w)
          ELSE Out(Ok(Unit), [w EXCEPT !.fs[link] = FileEntry(w.fs[src].ino)])))

\* the node that m, at or under from, becomes when from is renamed to to
Rebase(m, from, to) == to \o SubSeq(m, Len(from) + 1, Len(m))

Under(m, d) == m = d \/ IsAncestor(d, m)

\* the entries after from, with all under it, has taken the place of to
Moved(w, from, to) ==
    [w EXCEPT !.fs =
        [m \in FsNodes |->
            IF Under(m, to)
              THEN IF \E k \in FsNodes : Under(k, from) /\ Rebase(k, from, to) = m
                     THEN w.fs[CHOOSE k \in FsNodes :
                                 Under(k, from) /\ Rebase(k, from, to) = m]
                   ELSE NoEntry
            ELSE IF Under(m, from) THEN NoEntry
            ELSE w.fs[m]]]

\* rename(2); what is under a renamed directory moves with it
fs_rename(w, from, to) ==
    Guard(Out(Resolve(w, from), w),
      Guard(Out(Resolve(w, to), w),
        IF from = Root \/ to = Root THEN Out(Native(EBUSY), w)
        ELSE IF ~Exists(w, from) THEN Out(Native(ENOENT), w)
        ELSE IF IsAncestor(from, to) THEN Out(Native(EINVAL), w)
        ELSE IF IsAncestor(to, from) THEN Out(Native(ENOTEMPTY), w)
        ELSE IF from = to THEN Out(Ok(Unit), w)
        ELSE IF Kind(w, from) = "file" /\ Kind(w, to) = "file"
                /\ w.fs[from].ino = w.fs[to].ino THEN Out(Ok(Unit), w)
        ELSE IF ~DirWritable(w, ParentTab[from]) THEN Out(Native(EACCES), w)
        ELSE IF ~DirWritable(w, ParentTab[to]) THEN Out(Native(EACCES), w)
        ELSE IF Exists(w, to) /\ Kind(w, from) = "dir" /\ Kind(w, to) # "dir"
          THEN Out(Native(ENOTDIR), w)
        ELSE IF Exists(w, to) /\ Kind(w, from) # "dir" /\ Kind(w, to) = "dir"
          THEN Out(Native(EISDIR), w)
        ELSE IF Kind(w, from) = "dir" /\ ParentTab[from] # ParentTab[to]
                /\ Perms(w, from).ro THEN Out(Native(EACCES), w)
        ELSE IF Kind(w, to) = "dir" /\ HasChildren(w, to)
          THEN Out(Native(ENOTEMPTY), w)
        ELSE Out(Ok(Unit), Moved(w, from, to))))

\* the model holds the nodes of FsNodes only: a rename must keep what it
\* moves inside them
RenameFits(w, from, to) ==
    \A k \in FsNodes :
        (Under(k, from) /\ Exists(w, k)) => Rebase(k, from, to) \in FsNodes

\* rmdir(2)
fs_remove_dir(w, n) ==
    Guard(fs_metadata(w, n),
          IF n = Root THEN Out(Native(EBUSY), w)
          ELSE IF ~DirWritable(w, ParentTab[n]) THEN Out(Native(EACCES), w)
          ELSE IF Kind(w, n) # "dir" THEN Out(Native(ENOTDIR), w)
          ELSE IF HasChildren(w, n) THEN Out(Native(ENOTEMPTY), w)
          ELSE Out(Ok(Unit), [w EXCEPT !.fs[n] = NoEntry]))

\* unlink(2)
fs_remove_file(w, n) ==
    Guard(fs_metadata(w, n),
          IF n = Root THEN Out(Native(EISDIR), w)
          ELSE IF ~DirWritable(w, ParentTab[n]) THEN Out(Native(EACCES), w)
          ELSE IF Kind(w, n) = "dir" THEN Out(Native(EISDIR), w)
          ELSE Out(Ok(Unit), [w EXCEPT !.fs[n] = NoEntry]))

\* the entries of directory d in the order the directory is read: the
\* order is the filesystem's choice, forward or backward along NodeList
RECURSIVE ListFrom(_, _, _, _)
ListFrom(w, d, i, backward) ==
    IF i > Len(NodeList) THEN <<>>
    ELSE IF ~(IsChild(NodeList[i], d) /\ Exists(w, NodeList[i]))
      THEN ListFrom(w, d, i + 1, backward)
    ELSE IF backward THEN ListFrom(w, d, i + 1, backward) \o <<NodeList[i]>>
    ELSE <<NodeList[i]>> \o ListFrom(w, d, i + 1, backward)

Listing(w, d, backward) == ListFrom(w, d, 1, backward)

\* std::fs::remove_dir_all: the entries of the directory, depth first, then
\* the directory; the first failure ends it and keeps what is left
RECURSIVE RemoveTree(_, _, _), RemoveEach(_, _, _)
ThenRemoveDir(done, n) == IF ~done.res.ok THEN done ELSE fs_remove_dir(done.w, n)

RemoveTree(w, n, backward) ==
    ThenRemoveDir(RemoveEach(w, Listing(w, n, backward), backward), n)

ThenRemoveRest(one, rest, backward) ==
    IF ~one.res.ok THEN one ELSE RemoveEach(one.w, rest, backward)

RemoveEach(w, list, backward) ==
    IF list = <<>> THEN Out(Ok(Unit), w)
    ELSE ThenRemoveRest(IF Kind(w, Head(list)) = "dir"
                          THEN RemoveTree(w, Head(list), backward)
                        ELSE fs_remove_file(w, Head(list)),
                        Tail(list), backward)

fs_remove_dir_all(w, n, backward) ==
    Guard(fs_metadata(w, n),
          IF Kind(w, n) # "dir" THEN Out(Native(ENOTDIR), w)
          ELSE RemoveTree(w, n, backward))

\* chmod(2) with the mode of perms
fs_set_permissions(w, n, perms) ==
    Guard(fs_metadata(w, n),
          IF ~w.fs[n].own THEN Out(Native(EPERM), w)
          ELSE IF Kind(w, n) = "file"
            THEN Out(Ok(Unit), [w EXCEPT !.inodes[w.fs[n].ino].ro = perms.ro,
                                         !.inodes[w.fs[n].ino].rest = perms.rest])
          ELSE Out(Ok(Unit), [w EXCEPT !.fs[n].ro = perms.ro, !.fs[n].rest = perms.rest]))

\* Permissions::set_readonly
set_readonly(perms, readonly) == [perms EXCEPT !.ro = readonly]

(***************************************************************************)
(* PathAnyhow: the wrappers.  A call yields its result, the filesystem it  *)
(* leaves, and the primitives it invoked with what each returned.          *)
(***************************************************************************)
Prim(name, arg, res) == [name |-> name, arg |-> arg, res |-> res]
Ret(res, w, prims) == [res |-> res, w |-> w, prims |-> prims]

\* a variant of wrap_nullary_option_method that leaves the path context out
wrap_nullary_option_method_NoContext(w, name, opt, p, errordesc) ==
    Ret(ok_or_else(opt, <<errordesc>>), w, <<Prim(name, <<>>, opt)>>)

\* primitive(...).with_context(|| ctx): the result of a call that invoked one
\* primitive, whose outcome and filesystem are out
wrap_with(name, arg, out, ctx) ==
    Ret(with_context(out.res, ctx), out.w, <<Prim(name, arg, out.res)>>)

\* macro wrap_nullary_option_method: $cb(p).ok_or_else(msg).with_context(path)
wrap_nullary_option_method(w, name, opt, p, errordesc) ==
    Ret(with_context(ok_or_else(opt, <<errordesc>>), ProcessingCtx(p)),
        w, <<Prim(name, <<>>, opt)>>)

\* a variant of wrap_nullary_result_method that returns the native error bare
wrap_nullary_result_method_NoContext(name, out, p) ==
    Ret(out.res, out.w, <<Prim(name, <<>>, out.res)>>)

\* macro wrap_nullary_result_method: $cb(self).with_context(path)
wrap_nullary_result_method(name, out, p) ==
    wrap_with(name, <<>>, out, ProcessingCtx(p))

to_str_anyhow(w, p) ==
    wrap_nullary_option_method(w, "to_str", to_str(p), p, "invalid UTF8")

parent_anyhow(w, p) ==
    wrap_nullary_option_method(w, "parent", parent(p), p, "expected parent directory")

file_name_anyhow(w, p) ==
    wrap_nullary_option_method(w, "file_name", file_name(p), p,
                               "missing expected filename")

\* a variant of strip_prefix_anyhow that attaches its two contexts in the
\* other order
strip_prefix_anyhow_Swapped(w, p, base) ==
    LET r == strip_prefix(p, base)
    IN Ret(with_context(with_context(r, ProcessingCtx(p)),
                        <<"with prefix ">> \o Quote(base)),
           w, <<Prim("strip_prefix", base, r)>>)

strip_prefix_anyhow(w, p, base) ==
    LET r == strip_prefix(p, base)
    IN Ret(with_context(with_context(r, <<"with prefix ">> \o Quote(base)),
                        ProcessingCtx(p)),
           w, <<Prim("strip_prefix", base, r)>>)

file_stem_anyhow(w, p) ==
    wrap_nullary_option_method(w, "file_stem", file_stem(p), p,
                               "missing expected filename")

extension_anyhow(w, p) ==
    wrap_nullary_option_method(w, "extension", extension(p), p,
                               "missing expected extension")

metadata_anyhow(w, p) == wrap_nullary_result_method("metadata", fs_metadata(w, p), p)
symlink_metadata_anyhow(w, p) ==
    wrap_nullary_result_method("symlink_metadata", fs_metadata(w, p), p)
canonicalize_anyhow(w, p) ==
    wrap_nullary_result_method("canonicalize", fs_canonicalize(w, p), p)
read_link_anyhow(w, p) == wrap_nullary_result_method("read_link", fs_read_link(w, p), p)
read_dir_anyhow(w, p) == wrap_nullary_result_method("read_dir", fs_read_dir(w, p), p)

\* a variant of copy_anyhow that names the destination first
copy_anyhow_Swapped(w, p, to) ==
    wrap_with("copy", to, fs_copy(w, p, to),
              <<"while copying ">> \o Quote(to) \o <<" to ">> \o Quote(p))

copy_anyhow(w, p, to) ==
    wrap_with("copy", to, fs_copy(w, p, to),
              <<"while copying ">> \o Quote(p) \o <<" to ">> \o Quote(to))

create_dir_anyhow(w, p) ==
    wrap_nullary_result_method("create_dir", fs_create_dir(w, p), p)
create_dir_all_anyhow(w, p) ==
    wrap_nullary_result_method("create_dir_all", fs_create_dir_all(w, p), p)

hard_link_anyhow(w, p, link) ==
    wrap_with("hard_link", link, fs_hard_link(w, p, link),
              <<"while hard-linking ">> \o Quote(p) \o <<" to ">> \o Quote(link))

read_anyhow(w, p) == wrap_nullary_result_method("read", fs_read(w, p), p)
read_to_string_anyhow(w, p) ==
    wrap_nullary_result_method("read_to_string", fs_read_to_string(w, p), p)
remove_dir_anyhow(w, p) ==
    wrap_nullary_result_method("remove_dir", fs_remove_dir(w, p), p)
remove_dir_all_anyhow(w, p, backward) ==
    wrap_nullary_result_method("remove_dir_all", fs_remove_dir_all(w, p, backward), p)
\* a variant of remove_file_anyhow that takes a missing file for removed
remove_file_anyhow_IgnoreMissing(w, p) ==
    LET out == fs_remove_file(w, p)
    IN IF ~out.res.ok /\ out.res.chain = <<ENOENT>>
         THEN Ret(Ok(Unit), out.w, <<Prim("remove_file", <<>>, out.res)>>)
       ELSE wrap_nullary_result_method("remove_file", out, p)

remove_file_anyhow(w, p) ==
    wrap_nullary_result_method("remove_file", fs_remove_file(w, p), p)

rename_anyhow(w, p, to) ==
    wrap_with("rename", to, fs_rename(w, p, to),
              <<"while renaming ">> \o Quote(p) \o <<" to ">> \o Quote(to))

\* a variant of Persist whose context shows the value that was set in place
\* of the argument
Persist_EchoSet(p, readonly, m, perms, out) ==
    Ret(with_context(
            with_context(out.res, <<"with readonly permission ">> \o DebugBool(perms.ro)),
            ProcessingCtx(p)),
        out.w, m.prims \o <<Prim("set_permissions", perms, out.res)>>)

\* std::fs::set_permissions(self, perms) under its two contexts
Persist(p, readonly, m, perms, out) ==
    Ret(with_context(
            with_context(out.res, <<"with readonly permission ">> \o DebugBool(readonly)),
            ProcessingCtx(p)),
        out.w, m.prims \o <<Prim("set_permissions", perms, out.res)>>)

\* what follows metadata_anyhow()?: perms.set_readonly(true), then the
\* permissions are persisted
SetFetched(w, p, readonly, m) ==
    IF ~m.res.ok THEN m
    ELSE Persist(p, readonly, m, set_readonly(m.res.val.perms, TRUE),
                 fs_set_permissions(w, p, set_readonly(m.res.val.perms, TRUE)))

\* a variant of set_readonly_anyhow that changes the permissions it fetched
\* and never persists them
set_readonly_anyhow_NotPersisted(w, p, readonly) ==
    IF ~metadata_anyhow(w, p).res.ok THEN metadata_anyhow(w, p)
    ELSE Ret(Ok(Unit), w, metadata_anyhow(w, p).prims)

\* let mut perms = self.metadata_anyhow()?.permissions();
\* perms.set_readonly(true); std::fs::set_permissions(self, perms)
set_readonly_anyhow(w, p, readonly) == SetFetched(w, p, readonly, metadata_anyhow(w, p))

\* a variant of write_anyhow with the context of the nullary result macro
write_anyhow_ProcessingCtx(w, p, contents) ==
    wrap_with("write", contents, fs_write(w, p, contents), ProcessingCtx(p))

write_anyhow(w, p, contents) ==
    wrap_with("write", contents, fs_write(w, p, contents),
              <<"while writing to ">> \o Quote(p))

(***************************************************************************)
(* The state machine: one call of a wrapper per step.  last is the call    *)
(* that was made: its arguments, the primitives it invoked, its result.    *)
(***************************************************************************)
World == [fs |-> fs, inodes |-> inodes]

\* inode numbers are not seen through these calls: an inode is numbered by
\* the first node of NodeList that links to it
FirstLink(w, n) ==
    Min({i \in 1..Len(NodeList) :
            w.fs[NodeList[i]].kind = "file" /\ w.fs[NodeList[i]].ino = w.fs[n].ino})

CanonFs(w) ==
    [n \in FsNodes |->
        IF w.fs[n].kind = "file" THEN FileEntry(FirstLink(w, n)) ELSE w.fs[n]]

CanonInodes(w) ==
    [i \in Inos |->
        IF w.fs[NodeList[i]].kind = "file" /\ FirstLink(w, NodeList[i]) = i
          THEN w.inodes[w.fs[NodeList[i]].ino] ELSE FreeInode]

Idle == [op |-> "none", path |-> <<>>, arg |-> <<>>, before |-> None,
         prims |-> <<>>, res |-> Ok(Unit)]

\* a call is made when the caller holds no result
Step(op, p, arg, before, r) ==
    /\ last.op = "none"
    /\ fs' = CanonFs(r.w)
    /\ inodes' = CanonInodes(r.w)
    /\ last' = [op |-> op, path |-> p, arg |-> arg, before |-> before,
                prims |-> r.prims, res |-> r.res]

Init ==
    /\ fs = [n \in FsNodes |->
                IF n = Root THEN DirEntry(FALSE, "x", FALSE)
                ELSE IF n = Tmp THEN DirEntry(FALSE, "x", TRUE)
                ELSE NoEntry]
    /\ inodes = [i \in Inos |-> FreeInode]
    /\ last = Idle

\* the caller is done with the result (tests.rs: the Result is consumed)
Drop ==
    /\ last.op # "none"
    /\ last' = Idle
    /\ UNCHANGED <<fs, inodes>>

ToStr(p) == Step("to_str", p, <<>>, None, to_str_anyhow(World, p))
Parent(p) == Step("parent", p, <<>>, None, parent_anyhow(World, p))
FileName(p) == Step("file_name", p, <<>>, None, file_name_anyhow(World, p))
StripPrefix(p, base) ==
    Step("strip_prefix", p, base, None, strip_prefix_anyhow(World, p, base))
FileStem(p) == Step("file_stem", p, <<>>, None, file_stem_anyhow(World, p))
Extension(p) == Step("extension", p, <<>>, None, extension_anyhow(World, p))

Metadata(p) == Step("metadata", p, <<>>, None, metadata_anyhow(World, p))
SymlinkMetadata(p) ==
    Step("symlink_metadata", p, <<>>, None, symlink_metadata_anyhow(World, p))
Canonicalize(p) == Step("canonicalize", p, <<>>, None, canonicalize_anyhow(World, p))
ReadLink(p) == Step("read_link", p, <<>>, None, read_link_anyhow(World, p))
ReadDir(p) == Step("read_dir", p, <<>>, None, read_dir_anyhow(World, p))
Copy(p, to) == Step("copy", p, to, None, copy_anyhow(World, p, to))
CreateDir(p) == Step("create_dir", p, <<>>, None, create_dir_anyhow(World, p))
CreateDirAll(p) ==
    Step("create_dir_all", p, <<>>, None, create_dir_all_anyhow(World, p))
HardLink(p, link) == Step("hard_link", p, link, None, hard_link_anyhow(World, p, link))
Read(p) == Step("read", p, <<>>, None, read_anyhow(World, p))
ReadToString(p) ==
    Step("read_to_string", p, <<>>, None, read_to_string_anyhow(World, p))
RemoveDir(p) == Step("remove_dir", p, <<>>, None, remove_dir_anyhow(World, p))
RemoveDirAll(p, backward) ==
    Step("remove_dir_all", p, <<>>, None, remove_dir_all_anyhow(World, p, backward))
RemoveFile(p) == Step("remove_file", p, <<>>, None, remove_file_anyhow(World, p))
Rename(p, to) ==
    /\ last.op = "none"
    /\ RenameFits(World, p, to)
    /\ Step("rename", p, to, None, rename_anyhow(World, p, to))
SetReadonly(p, readonly) ==
    Step("set_readonly", p, readonly, None, set_readonly_anyhow(World, p, readonly))
\* before: what a read of p returned ahead of the write
ValueOf(r) == IF r.res.ok THEN Some(r.res.val) ELSE None

Write(p, contents) ==
    Step("write", p, contents, ValueOf(fs_read(World, p)), write_anyhow(World, p, contents))

\* the paths given to the path queries when they run beside the filesystem
QueryArgs == FsNodes \cup {<<Bad81>>, <<Dot, Dot>>, <<"a", Dot, "a">>}

Next ==
    \/ \E p \in QueryArgs : ToStr(p)
    \/ \E p \in QueryArgs : Parent(p)
    \/ \E p \in QueryArgs : FileName(p)
    \/ \E p \in QueryArgs : \E base \in QueryArgs : StripPrefix(p, base)
    \/ \E p \in QueryArgs : FileStem(p)
    \/ \E p \in QueryArgs : Extension(p)
    \/ \E p \in FsNodes : Metadata(p)
    \/ \E p \in FsNodes : SymlinkMetadata(p)
    \/ \E p \in FsNodes : Canonicalize(p)
    \/ \E p \in FsNodes : ReadLink(p)
    \/ \E p \in FsNodes : ReadDir(p)
    \/ \E p \in FsNodes : \E to \in FsNodes : Copy(p, to)
    \/ \E p \in FsNodes : CreateDir(p)
    \/ \E p \in FsNodes : CreateDirAll(p)
    \/ \E p \in FsNodes : \E link \in FsNodes : HardLink(p, link)
    \/ \E p \in FsNodes : Read(p)
    \/ \E p \in FsNodes : ReadToString(p)
    \/ \E p \in FsNodes : RemoveDir(p)
    \/ \E p \in FsNodes : \E backward \in BOOLEAN : RemoveDirAll(p, backward)
    \/ \E p \in FsNodes : RemoveFile(p)
    \/ \E p \in FsNodes : \E to \in FsNodes : Rename(p, to)
    \/ \E p \in FsNodes : \E readonly \in BOOLEAN : SetReadonly(p, readonly)
    \/ \E p \in FsNodes : \E contents \in Contents : Write(p, contents)
    \/ Drop

Spec == Init /\ [][Next]_vars

\* the path queries alone, over every path up to MaxLen: the call to make
\* is drawn first, then made
InitPath ==
    /\ fs = [n \in FsNodes |->
                IF n = Root THEN DirEntry(FALSE, "x", FALSE)
                ELSE IF n = Tmp THEN DirEntry(FALSE, "x", TRUE)
                ELSE NoEntry]
    /\ inodes = [i \in Inos |-> FreeInode]
    /\ \E p \in Paths : \E base \in Bases :
          last = [Idle EXCEPT !.path = p, !.arg = base]

NextPath ==
    /\ \/ ToStr(last.path)
       \/ Parent(last.path)
       \/ FileName(last.path)
       \/ StripPrefix(last.path, last.arg)
       \/ FileStem(last.path)
       \/ Extension(last.path)

SpecPath == InitPath /\ [][NextPath]_vars

TypeOK ==
    /\ \A n \in FsNodes : fs[n].kind \in {"none", "dir", "file"}
    /\ fs[Root].kind = "dir" /\ ~Exists(World, Gone) /\ ~Exists(World, GoneA)
    /\ \A n \in FsNodes \ {Root} :
          /\ Some(Components(ParentTab[n])) = parent(n)
          /\ Exists(World, n) => Kind(World, ParentTab[n]) = "dir"
    /\ \A n \in FsNodes : fs[n].kind = "file" => fs[n].ino \in Inos

(***************************************************************************)
(* Vocabulary of the properties                                            *)
(***************************************************************************)
OptionOps == {"to_str", "parent", "file_name", "file_stem", "extension"}
ResultOps == {"metadata", "symlink_metadata", "canonicalize", "read_link", "read_dir",
              "create_dir", "create_dir_all", "read", "read_to_string", "remove_dir",
              "remove_dir_all", "remove_file"}
BinaryOps == {"copy", "hard_link", "rename"}

\* what the primitive behind an option-shaped wrapper yields for p
OptionOf(op, p) ==
    CASE op = "to_str" -> to_str(p)
      [] op = "parent" -> parent(p)
      [] op = "file_name" -> file_name(p)
      [] op = "file_stem" -> file_stem(p)
      [] op = "extension" -> extension(p)

\* the phrase the specification fixes for each option-shaped operation
PhraseOf(op) ==
    CASE op = "to_str" -> "invalid UTF8"
      [] op = "parent" -> "expected parent directory"
      [] op = "file_name" -> "missing expected filename"
      [] op = "file_stem" -> "missing expected filename"
      [] op = "extension" -> "missing expected extension"

\* the context the specification fixes for each binary-path operation
VerbOf(op) ==
    CASE op = "copy" -> "while copying "
      [] op = "hard_link" -> "while hard-linking "
      [] op = "rename" -> "while renaming "

EndsWith(s, t) ==
    Len(t) <= Len(s) /\ SubSeq(s, Len(s) - Len(t) + 1, Len(s)) = t

\* the outcome of a primitive is a failure or an absent value
Failed(prim) ==
    IF prim.name \in OptionOps THEN ~prim.res.some ELSE ~prim.res.ok

(***************************************************************************)
(* C1: each option-shaped wrapper returns Ok with exactly the value the    *)
(* primitive yields when it yields one, and otherwise an error rendered    *)
(* exactly 'while processing path <debug-quoted P>: <phrase>' with the     *)
(* phrase fixed per operation.                                             *)
(***************************************************************************)
C1_OptionWrappers ==
    last.op \in OptionOps =>
        LET opt == OptionOf(last.op, last.path)
        IN IF opt.some THEN last.res = Ok(opt.val)
           ELSE /\ ~last.res.ok
                /\ Render(last.res.chain) =
                     <<"while processing path ">> \o Quote(last.path)
                         \o <<": ", PhraseOf(last.op)>>

\* to_str_anyhow was called on a path that is not UTF-8 and failed
C1_Witness ==
    /\ last.op = "to_str" /\ ~last.res.ok
    /\ \E i \in 1..Len(last.path) : last.path[i] = Bad81

(***************************************************************************)
(* C2: each wrapper made by the nullary result macro returns Ok(v) exactly *)
(* when the primitive returns Ok(v), v unchanged; when the primitive fails *)
(* with native error E the error has exactly one context layer, rendered   *)
(* 'while processing path <debug-quoted P>: <message of E>', E innermost.  *)
(***************************************************************************)
C2_ResultWrappers ==
    last.op \in ResultOps =>
        /\ Len(last.prims) = 1 /\ last.prims[1].name = last.op
        /\ LET prim == last.prims[1].res
           IN IF prim.ok THEN last.res = prim
              ELSE /\ ~last.res.ok
                   /\ Len(last.res.chain) = 2
                   /\ last.res.chain[2] = prim.chain[1]
                   /\ Render(last.res.chain) =
                        <<"while processing path ">> \o Quote(last.path)
                            \o <<": ">> \o prim.chain[1]

\* metadata_anyhow failed on a path under a directory that does not exist
C2_Witness ==
    /\ last.op = "metadata" /\ last.path = GoneA
    /\ ~last.res.ok /\ last.res.chain[2] = ENOENT

(***************************************************************************)
(* C3, as stated: a failed write_anyhow carries the context                *)
(* 'while processing path <debug-quoted P>' of the other shape-B wrappers. *)
(***************************************************************************)
C3_AsStated ==
    (last.op = "write" /\ ~last.res.ok) =>
        last.res.chain[1] = <<"while processing path ">> \o Quote(last.path)

(***************************************************************************)
(* C3, amended: a failed write_anyhow wraps the native error in exactly    *)
(* one context layer, 'while writing to <debug-quoted P>'; a successful    *)
(* write returns the primitive's Ok.                                       *)
(***************************************************************************)
C3_WriteContext ==
    last.op = "write" =>
        LET prim == last.prims[1].res
        IN IF prim.ok THEN last.res = prim
           ELSE /\ ~last.res.ok
                /\ Render(last.res.chain) =
                     <<"while writing to ">> \o Quote(last.path)
                         \o <<": ">> \o prim.chain[1]

\* write_anyhow was refused by the filesystem
C3_Witness ==
    last.op = "write" /\ ~last.res.ok /\ last.res.chain[2] = EACCES

(***************************************************************************)
(* C4, as stated: after a successful set_readonly_anyhow(readonly) the     *)
(* persisted permissions of P have readonly equal to the argument, and the *)
(* other permission state fetched from metadata is persisted unchanged.    *)
(***************************************************************************)
C4_SetsRequestedValue ==
    (last.op = "set_readonly" /\ last.res.ok) =>
        /\ Perms(World, last.path).ro = last.arg
        /\ Perms(World, last.path).rest = last.prims[1].res.val.perms.rest

(***************************************************************************)
(* C5: strip_prefix_anyhow(base) on P returns Ok with the remainder of P   *)
(* after base when base is a prefix of P by whole components; otherwise    *)
(* the error has exactly two context layers, outermost first               *)
(* 'while processing path <P>', 'with prefix <base>', then the root cause  *)
(* 'prefix not found'.                                                     *)
(***************************************************************************)
C5_StripPrefix ==
    last.op = "strip_prefix" =>
        LET cs == Components(last.path)
            bs == Components(last.arg)
            rests == {k \in 0..Len(cs) : cs = bs \o SubSeq(cs, k + 1, Len(cs))}
        IN IF rests # {}
             THEN \E k \in rests : last.res = Ok(SubSeq(cs, k + 1, Len(cs)))
           ELSE /\ ~last.res.ok
                /\ last.res.chain =
                     << <<"while processing path ">> \o Quote(last.path),
                        <<"with prefix ">> \o Quote(last.arg),
                        <<"prefix not found">> >>
                /\ Render(last.res.chain) =
                     <<"while processing path ">> \o Quote(last.path) \o <<": ">>
                         \o <<"with prefix ">> \o Quote(last.arg) \o <<": ">>
                         \o <<"prefix not found">>

\* a prefix that matches by characters but not by components was refused
C5_Witness ==
    /\ last.op = "strip_prefix" /\ ~last.res.ok
    /\ last.path = <<"a", "a">> /\ last.arg = <<"a">>

(***************************************************************************)
(* C6: copy_anyhow, hard_link_anyhow and rename_anyhow return the          *)
(* primitive's value unchanged on success; on failure the outermost        *)
(* context names the operation and both paths, source then destination,    *)
(* debug-quoted, and the native error follows as the root cause,           *)
(* whichever path caused the failure.                                      *)
(***************************************************************************)
C6_BinaryWrappers ==
    last.op \in BinaryOps =>
        LET prim == last.prims[1].res
        IN IF prim.ok THEN last.res = prim
           ELSE /\ ~last.res.ok
                /\ last.res.chain[1] =
                     <<VerbOf(last.op)>> \o Quote(last.path) \o <<" to ">>
                         \o Quote(last.arg)
                /\ Render(last.res.chain) =
                     <<VerbOf(last.op)>> \o Quote(last.path) \o <<" to ">>
                         \o Quote(last.arg) \o <<": ">> \o prim.chain[1]

\* a copy of an existing file failed because of its destination
C6_Witness ==
    /\ last.op = "copy" /\ ~last.res.ok
    /\ Kind(World, last.path) = "file" /\ last.arg = GoneA

(***************************************************************************)
(* C7: for every wrapped operation the wrapper returns an error if and     *)
(* only if a primitive it invoked failed or yielded absent; every error,   *)
(* rendered, starts with a context, contains the debug-quoted form of      *)
(* every path argument of the call, and ends with the root cause.          *)
(***************************************************************************)
C7_NothingSwallowed ==
    last.op # "none" =>
        LET failing == {i \in 1..Len(last.prims) : Failed(last.prims[i])}
            text == Render(last.res.chain)
        IN /\ Len(last.prims) >= 1
           /\ ~last.res.ok <=> failing # {}
           /\ ~last.res.ok =>
                /\ Len(last.res.chain) >= 2
                /\ Contains(text, <<"\"">> \o [i \in 1..Len(last.path) |->
                                                  IF last.path[i] = Bad81 THEN "\\x81"
                                                  ELSE last.path[i]] \o <<"\"">>)
                /\ last.op \in BinaryOps \cup {"strip_prefix"} =>
                     Contains(text, <<"\"">> \o [i \in 1..Len(last.arg) |->
                                                  IF last.arg[i] = Bad81 THEN "\\x81"
                                                  ELSE last.arg[i]] \o <<"\"">>)
                /\ LET prim == last.prims[Min(failing)]
                   IN IF prim.name \in OptionOps
                        THEN EndsWith(text, <<": ", PhraseOf(prim.name)>>)
                      ELSE EndsWith(text, <<": ">> \o prim.res.chain[1])
                /\ text[1] \in {"while processing path ", "while writing to ",
                                "while copying ", "while hard-linking ",
                                "while renaming "}

\* a removal failed and the error reports it
C7_Witness ==
    /\ last.op = "remove_file" /\ ~last.res.ok
    /\ last.prims[1].res.chain = <<ENOENT>>

(***************************************************************************)
(* C8: after write_anyhow(B) on P returned Ok, read_anyhow on P returns Ok *)
(* with exactly B, also when the write replaced other contents.            *)
(***************************************************************************)
C8_WriteThenRead ==
    (last.op = "write" /\ last.res.ok) =>
        read_anyhow(World, last.path).res = Ok(last.arg)

\* a write replaced different contents of an existing file
C8_Witness ==
    /\ last.op = "write" /\ last.res.ok
    /\ last.before.some /\ last.before.val # <<>> /\ last.before.val # last.arg

(***************************************************************************)
(* C9: file_stem_anyhow fails, with 'missing expected filename', only when *)
(* P has no final name segment, and returns the whole segment when the     *)
(* segment has no extension; extension_anyhow fails, with 'missing         *)
(* expected extension', exactly when P has no final name segment, or the   *)
(* segment has no dot, or its only dot is its first character, and         *)
(* otherwise returns the text after the last dot.                          *)
(***************************************************************************)
C9_StemAndExtension ==
    LET seg == file_name(last.path)
        dots == IF seg.some THEN {i \in 1..Len(seg.val) : seg.val[i] = Dot} ELSE {}
        noExt == ~seg.some \/ dots = {} \/ dots = {1}
        lastDot == CHOOSE i \in dots : \A j \in dots : j <= i
    IN /\ last.op = "file_stem" =>
            /\ ~last.res.ok <=> ~seg.some
            /\ ~last.res.ok =>
                 last.res.chain[Len(last.res.chain)] = <<"missing expected filename">>
            /\ (seg.some /\ noExt) => last.res = Ok(seg.val)
       /\ last.op = "extension" =>
            /\ ~last.res.ok <=> noExt
            /\ ~last.res.ok =>
                 last.res.chain[Len(last.res.chain)] = <<"missing expected extension">>
            /\ ~noExt =>
                 last.res = Ok(SubSeq(seg.val, lastDot + 1, Len(seg.val)))

\* extension_anyhow refused a bare dotfile
C9_Witness ==
    /\ last.op = "extension" /\ ~last.res.ok
    /\ last.path = <<Dot, "a">>

(***************************************************************************)
(* C10: a successful set_readonly_anyhow(true) leaves P read-only, and for *)
(* as long as an entry is read-only every wrapped operation that needs     *)
(* write permission on it fails with the native permission error and names *)
(* the attempted path: write_anyhow on a read-only file, and, under a      *)
(* read-only directory, create_dir_all_anyhow and write_anyhow of a new    *)
(* entry, hard_link_anyhow of an existing file to a new entry, rename of   *)
(* an existing entry from outside the new entry's ancestors to it.         *)
(***************************************************************************)
Denied(r, target) ==
    /\ ~r.res.ok
    /\ r.res.chain[Len(r.res.chain)] = EACCES
    /\ Contains(Render(r.res.chain), Quote(target))

C11_TwoStepSequence ==
    [][last'.op = "set_readonly" =>
          LET m == last'.prims[1]
          IN /\ m.name = "metadata"
             /\ IF ~m.res.ok
                  THEN /\ Len(last'.prims) = 1
                       /\ fs' = fs /\ inodes' = inodes
                       /\ ~last'.res.ok
                       /\ Render(last'.res.chain) =
                            <<"while processing path ">> \o Quote(last'.path)
                                \o <<": ">> \o m.res.chain[1]
                       /\ ~Contains(Render(last'.res.chain),
                                    <<"with readonly permission ">>)
                ELSE /\ Len(last'.prims) = 2
                     /\ last'.prims[2].name = "set_permissions"
                     /\ last'.res.ok <=> last'.prims[2].res.ok
                     /\ ~last'.res.ok =>
                          Render(last'.res.chain) =
                            <<"while processing path ">> \o Quote(last'.path)
                                \o <<": ">> \o <<"with readonly permission ">>
                                \o <<IF last'.arg THEN "true" ELSE "false">>
                                \o <<": ">> \o last'.prims[2].res.chain[1]
    ]_vars

\* the persist step of set_readonly_anyhow(false) failed after the metadata
\* step had succeeded
C11_Witness ==
    /\ last.op = "set_readonly" /\ last.arg = FALSE /\ ~last.res.ok
    /\ Len(last.prims) = 2 /\ last.prims[1].res.ok /\ ~last.prims[2].res.ok

====
